---- MODULE Spec2Model ----
(***************************************************************************)
(* Page mapper (deps/page-mapper): marker embedding, sandboxed render      *)
(* simulation, structural path mapping and the MapperService lookups.      *)
(*                                                                         *)
(* A document is a sequence of element nodes; the node at index n is the   *)
(* element with identity n.  Node 1 is always <body>; the <html> element   *)
(* is the pseudo node 0 (its children are <head> and <body>).  An HTML     *)
(* string is a document in canonical form (nodes numbered in document      *)
(* order, no detached nodes); parsing a string yields fresh elements       *)
(* numbered in that order.                                                 *)
(***************************************************************************)
EXTENDS Integers, Sequences, FiniteSets, TLC

VARIABLES
    sourceHTML,   \* the sourceHTML argument of initializeMapper
    config,       \* mergedConfig of initializeMapper
    pc,           \* position of initializeMapper
    embedded,     \* what embedSourceMarkers returned
    render,       \* the renderPage calls, by call id
    hostFrames,   \* iframes attached to the host document.body
    events,       \* phases initializeMapper entered, a throw and its error
    service,      \* the MapperService (fields), once constructed
    editsLeft,    \* in-place source edits the caller still makes
    lastFind,     \* last findSourceElement call: argument and result
    lastAll       \* last getAllMappedElements call: argument and result

vars == <<sourceHTML, config, pc, embedded, render, hostFrames, events,
          service, editsLeft, lastFind, lastAll>>

----------------------------------------------------------------------------
(* Bounds *)

MaxNodes == 3        \* elements below <body> in an enumerated source
NumIds == 2          \* distinct values generateRandomId can return
MaxDecorators == 2   \* length of an enumerated decorator list
MaxEdits == 1        \* in-place edits of the source document

----------------------------------------------------------------------------
(* DOM *)

HTMLNode == 0
BODY == 1
Null == 0 - 1
Thrown == 0 - 3      \* a call that ended in an exception

Tok(t, i, k) == [tag |-> t, id |-> i, kind |-> k]
PlainText == Tok("", 0, "TEXT")
PlainUrl == Tok("", 0, "URL")
NoSrc == Tok("", 0, "NONE")

Elem(t, ks, tx, sr) ==
    [tag |-> t, kids |-> ks, txt |-> tx, src |-> sr, mids |-> <<>>, cls |-> <<>>]

IndexOf(s, x) ==
    IF \E i \in 1..Len(s) : s[i] = x
    THEN (CHOOSE i \in 1..Len(s) : s[i] = x) - 1
    ELSE 0 - 1

SeqToSet(s) == {s[i] : i \in 1..Len(s)}

tagName(doc, n) == IF n = HTMLNode THEN "HTML" ELSE doc[n].tag

children(doc, n) == IF n = HTMLNode THEN <<Null, BODY>> ELSE doc[n].kids

parentElement(doc, n) ==
    IF n = HTMLNode THEN Null
    ELSE IF n = BODY THEN HTMLNode
    ELSE IF \E m \in 1..Len(doc) : n \in SeqToSet(doc[m].kids)
         THEN CHOOSE m \in 1..Len(doc) : n \in SeqToSet(doc[m].kids)
         ELSE Null

RECURSIVE Subtree(_, _), SubtreeOfAll(_, _)
Subtree(doc, n) == <<n>> \o SubtreeOfAll(doc, doc[n].kids)
SubtreeOfAll(doc, ks) ==
    IF ks = <<>> THEN <<>>
    ELSE Subtree(doc, Head(ks)) \o SubtreeOfAll(doc, Tail(ks))

\* proper descendants of n, in document order
Descendants(doc, n) == SubtreeOfAll(doc, doc[n].kids)

\* all elements of the document (html excluded), attached or not
Elements(doc) == 1..Len(doc)

Attached(doc) == SeqToSet(Subtree(doc, BODY))

RECURSIVE textContent(_, _), textContentOfAll(_, _)
textContent(doc, n) == doc[n].txt \o textContentOfAll(doc, doc[n].kids)
textContentOfAll(doc, ks) ==
    IF ks = <<>> THEN <<>>
    ELSE textContent(doc, Head(ks)) \o textContentOfAll(doc, Tail(ks))

(* Selectors: a bare tag name, or "body > main" (a selector that is no tag
   name). *)
RootSelectors == {"main", "div", "body > main"}

toUpperCase(sel) ==
    CASE sel = "main" -> "MAIN"
      [] sel = "div" -> "DIV"
      [] sel = "body > main" -> "BODY > MAIN"
      [] OTHER -> sel

matches(doc, n, sel) ==
    CASE sel = "main" -> doc[n].tag = "MAIN"
      [] sel = "div" -> doc[n].tag = "DIV"
      [] sel = "body > main" ->
            doc[n].tag = "MAIN" /\ parentElement(doc, n) = BODY
      [] OTHER -> FALSE

FirstMatch(doc, ns, sel) ==
    IF \E i \in 1..Len(ns) : matches(doc, ns[i], sel)
    THEN ns[CHOOSE i \in 1..Len(ns) :
                /\ matches(doc, ns[i], sel)
                /\ \A j \in 1..(i - 1) : ~matches(doc, ns[j], sel)]
    ELSE Null

\* element.querySelector(sel): first proper descendant in document order
querySelector(doc, scope, sel) == FirstMatch(doc, Descendants(doc, scope), sel)

\* document.querySelector(sel)
docQuerySelector(doc, sel) == FirstMatch(doc, Subtree(doc, BODY), sel)

\* root.querySelectorAll(targetSelectors.join(', '))
querySelectorAll(doc, scope, targets) ==
    SelectSeq(Descendants(doc, scope), LAMBDA n : doc[n].tag \in targets)

(* Serialising a document and parsing the string again: the elements of the
   result are new ones, numbered in document order; detached nodes are not
   part of the markup. *)
Serialize(doc) ==
    LET order == Subtree(doc, BODY)
        Renum(ks) == [i \in 1..Len(ks) |-> IndexOf(order, ks[i]) + 1]
    IN  [i \in 1..Len(order) |->
            [doc[order[i]] EXCEPT !.kids = Renum(doc[order[i]].kids)]]

----------------------------------------------------------------------------
(* Insertion-ordered maps (JavaScript Map) as sequences of key/value pairs *)

MapHas(m, k) == \E i \in 1..Len(m) : m[i].key = k
MapGet(m, k) == m[CHOOSE i \in 1..Len(m) : m[i].key = k].val
MapSet(m, k, v) ==
    IF MapHas(m, k)
    THEN [i \in 1..Len(m) |-> IF m[i].key = k THEN [key |-> k, val |-> v] ELSE m[i]]
    ELSE Append(m, [key |-> k, val |-> v])
MapKeys(m) == {m[i].key : i \in 1..Len(m)}

----------------------------------------------------------------------------
(* utils.js *)

Step(t, i) == [tag |-> t, index |-> i]

RECURSIVE getElementPathLoop(_, _, _, _)
getElementPathLoop(doc, current, root, path) ==
    IF current = Null \/ current = root THEN path
    ELSE LET parent == parentElement(doc, current) IN
         IF parent = Null \/ parent = root
         THEN <<Step(tagName(doc, current), IndexOf(children(doc, root), current))>> \o path
         ELSE getElementPathLoop(doc, parent, root,
                <<Step(tagName(doc, current), IndexOf(children(doc, parent), current))>> \o path)

\* variant of getElementPath that counts only the siblings of the same tag
RECURSIVE getElementPathSameTag(_, _, _)
getElementPathSameTag(doc, element, root) ==
    IF element = Null \/ element = root THEN <<>>
    ELSE LET parent == parentElement(doc, element)
             siblings == SelectSeq(children(doc, IF parent = Null THEN root ELSE parent),
                                   LAMBDA k : k # Null /\ tagName(doc, k) = tagName(doc, element))
             step == Step(tagName(doc, element), IndexOf(siblings, element))
         IN  IF parent = Null \/ parent = root THEN <<step>>
             ELSE getElementPathSameTag(doc, parent, root) \o <<step>>

getElementPath(doc, element, root) == getElementPathLoop(doc, element, root, <<>>)

\* variant of getElementByPath that selects children by index alone
RECURSIVE getElementByIndexPath(_, _, _)
getElementByIndexPath(doc, root, path) ==
    IF path = <<>> THEN root
    ELSE IF root = Null THEN Null
    ELSE LET step == Head(path)
             kids == children(doc, root)
         IN  IF step.index < 0 \/ step.index >= Len(kids) THEN Null
             ELSE getElementByIndexPath(doc, kids[step.index + 1], Tail(path))

\* variant of getElementByPath that reads child.tagName without testing child
RECURSIVE getElementByPathUnguarded(_, _, _)
getElementByPathUnguarded(doc, root, path) ==
    IF path = <<>> THEN root
    ELSE IF root = Null THEN Null
    ELSE LET step == Head(path)
             kids == children(doc, root)
         IN  IF step.index < 0 \/ step.index >= Len(kids) THEN Thrown
             ELSE IF tagName(doc, kids[step.index + 1]) # step.tag THEN Null
             ELSE getElementByPathUnguarded(doc, kids[step.index + 1], Tail(path))

RECURSIVE getElementByPath(_, _, _)
getElementByPath(doc, root, path) ==
    IF path = <<>> THEN root
    ELSE IF root = Null THEN Null
    ELSE LET step == Head(path)
             kids == children(doc, root)
         IN  IF step.index < 0 \/ step.index >= Len(kids) THEN Null
             ELSE IF tagName(doc, kids[step.index + 1]) # step.tag THEN Null
             ELSE getElementByPath(doc, kids[step.index + 1], Tail(path))

----------------------------------------------------------------------------
(* components/source-hash-embedder.js *)

\* generateRandomId draws the id at random: any value, repeats included
RandomIds == 1..NumIds

createHash(elementType, contentType, randomId) == Tok(elementType, randomId, contentType)

RECURSIVE embedderPathLoop(_, _, _, _)
embedderPathLoop(doc, current, rootSelector, path) ==
    IF current = Null \/ tagName(doc, current) = toUpperCase(rootSelector) THEN path
    ELSE LET parent == parentElement(doc, current) IN
         IF parent = Null THEN path
         ELSE embedderPathLoop(doc, parent, rootSelector,
                <<Step(tagName(doc, current), IndexOf(children(doc, parent), current))>> \o path)

\* getElementPath(el, rootSelector) of the embedder
embedderGetElementPath(doc, el, rootSelector) == embedderPathLoop(doc, el, rootSelector, <<>>)

\* variant of shouldSkipElement that skips nothing
shouldSkipNothing(doc, element, targets) == FALSE

\* const shouldSkipElement = (element) => ...
shouldSkipElement(doc, element, targets) == querySelectorAll(doc, element, targets) # <<>>

\* markerMap.set(marker, {type, value, element})
Entry(type, value, element) == [type |-> type, value |-> value, element |-> element]

\* listItems.forEach: acc = [doc, markerMap, elementMarkers]
RECURSIVE embedListItems(_, _, _)
embedListItems(acc, lis, ids) ==
    IF lis = <<>> THEN acc
    ELSE LET li == Head(lis)
             hasHTML == acc.doc[li].txt # <<>> \/ acc.doc[li].kids # <<>>
             htmlMarker == createHash("LI", "HTML", ids[li])
         IN  IF ~hasHTML THEN embedListItems(acc, Tail(lis), ids)
             ELSE embedListItems(
                    [doc |-> [acc.doc EXCEPT ![li].kids = <<>>, ![li].txt = <<htmlMarker>>],
                     markerMap |-> MapSet(acc.markerMap, htmlMarker,
                                          Entry("html", textContent(acc.doc, li), "LI")),
                     elementMarkers |-> Append(acc.elementMarkers, htmlMarker)],
                    Tail(lis), ids)

\* the three branches of the forEach body: [doc, markerMap, elementMarkers]
embedBranches(doc, markerMap, element, ids) ==
    LET elementType == doc[element].tag IN
    IF elementType = "IMG"
    THEN IF doc[element].src.kind = "NONE"
         THEN [doc |-> doc, markerMap |-> markerMap, elementMarkers |-> <<>>]
         ELSE LET srcMarker == createHash(elementType, "SRC", ids[element]) IN
              [doc |-> [doc EXCEPT ![element].src = srcMarker],
               markerMap |-> MapSet(markerMap, srcMarker,
                                    Entry("attribute", <<doc[element].src>>, elementType)),
               elementMarkers |-> <<srcMarker>>]
    ELSE IF elementType \in {"UL", "OL"}
    THEN embedListItems([doc |-> doc, markerMap |-> markerMap, elementMarkers |-> <<>>],
                        SelectSeq(doc[element].kids, LAMBDA k : doc[k].tag = "LI"), ids)
    ELSE IF textContent(doc, element) = <<>>
         THEN [doc |-> doc, markerMap |-> markerMap, elementMarkers |-> <<>>]
         ELSE LET htmlMarker == createHash(elementType, "HTML", ids[element]) IN
              [doc |-> [doc EXCEPT ![element].kids = <<>>, ![element].txt = <<htmlMarker>>],
               markerMap |-> MapSet(markerMap, htmlMarker,
                                    Entry("html", textContent(doc, element), elementType)),
               elementMarkers |-> <<htmlMarker>>]

RECURSIVE registerMarkers(_, _, _)
registerMarkers(markerToSourcePath, elementMarkers, path) ==
    IF elementMarkers = <<>> THEN markerToSourcePath
    ELSE registerMarkers(MapSet(markerToSourcePath, Head(elementMarkers), path),
                         Tail(elementMarkers), path)

\* targetElements.forEach body: acc = [doc, markerMap, markerToSourcePath, owners];
\* owners notes, for each marker created, the element of this forEach step
embedElement(acc, element, cfg, ids) ==
    IF shouldSkipElement(acc.doc, element, cfg.targetSelectors) THEN acc
    ELSE LET b == embedBranches(acc.doc, acc.markerMap, element, ids) IN
         IF b.elementMarkers = <<>>
         THEN [acc EXCEPT !.doc = b.doc, !.markerMap = b.markerMap]
         ELSE LET path == embedderGetElementPath(b.doc, element, cfg.rootSelector) IN
              [doc |-> [b.doc EXCEPT ![element].mids = b.elementMarkers],
               markerMap |-> b.markerMap,
               markerToSourcePath |->
                   registerMarkers(acc.markerToSourcePath, b.elementMarkers, path),
               owners |-> acc.owners \o
                   [i \in 1..Len(b.elementMarkers) |->
                        [marker |-> b.elementMarkers[i], element |-> element]]]

RECURSIVE embedElements(_, _, _, _)
embedElements(acc, targetElements, cfg, ids) ==
    IF targetElements = <<>> THEN acc
    ELSE embedElements(embedElement(acc, Head(targetElements), cfg, ids),
                       Tail(targetElements), cfg, ids)

\* variant of embedSourceMarkers that instruments the body when the root is missing
embedSourceMarkersFromBody(html, cfg, ids) ==
    LET doc == html
        found == querySelector(doc, BODY, cfg.rootSelector)
        root == IF found = Null THEN BODY ELSE found
        acc == embedElements(
                    [doc |-> doc, markerMap |-> <<>>, markerToSourcePath |-> <<>>,
                     owners |-> <<>>],
                    querySelectorAll(doc, root, cfg.targetSelectors), cfg, ids)
    IN  [markedHTML |-> Serialize(acc.doc),
         markerMap |-> acc.markerMap,
         markerToSourcePath |-> acc.markerToSourcePath,
         owners |-> acc.owners]

\* embedSourceMarkers(sourceHTML, config); ids: the random id drawn at each element
embedSourceMarkers(html, cfg, ids) ==
    LET doc == html
        root == querySelector(doc, BODY, cfg.rootSelector)
    IN  IF root = Null
        THEN [markedHTML |-> html, markerMap |-> <<>>, markerToSourcePath |-> <<>>,
              owners |-> <<>>]
        ELSE LET acc == embedElements(
                            [doc |-> doc, markerMap |-> <<>>, markerToSourcePath |-> <<>>,
                             owners |-> <<>>],
                            querySelectorAll(doc, root, cfg.targetSelectors), cfg, ids)
             IN  [markedHTML |-> Serialize(acc.doc),
                  markerMap |-> acc.markerMap,
                  markerToSourcePath |-> acc.markerToSourcePath,
                  owners |-> acc.owners]

----------------------------------------------------------------------------
(* Source markup *)

RECURSIVE OnSpine(_, _, _)
OnSpine(par, j, a) == a = j \/ (j > 1 /\ OnSpine(par, par[j], a))

\* parent vectors of the ordered trees with n elements below <body>,
\* elements numbered in document order
Shapes(n) ==
    {par \in [2..(n + 1) -> 1..n] :
        \A i \in 2..(n + 1) : par[i] < i /\ (i > 2 => OnSpine(par, i - 1, par[i]))}

LabelTag(l) ==
    CASE l = "P0" -> "P"
      [] l = "IMG0" -> "IMG"
      [] l = "LI0" -> "LI"
      [] OTHER -> l

\* elements the HTML parser never gives element children
VoidOrPhrasing(l) == LabelTag(l) \in {"P", "IMG"}

MkDoc(n, par, lab) ==
    [i \in 1..(n + 1) |->
        IF i = 1
        THEN Elem("BODY", SelectSeq([j \in 1..(n + 1) |-> j], LAMBDA j : j > 1 /\ par[j] = 1),
                  <<>>, NoSrc)
        ELSE Elem(LabelTag(lab[i]),
                  SelectSeq([j \in 1..(n + 1) |-> j], LAMBDA j : j > 1 /\ par[j] = i),
                  IF lab[i] \in {"P", "LI", "SPAN", "X-P"} THEN <<PlainText>> ELSE <<>>,
                  IF lab[i] = "IMG" THEN PlainUrl ELSE NoSrc)]

GenericLabels == {"MAIN", "DIV", "P", "IMG"}

GenericDocs ==
    UNION {{MkDoc(n, par, lab) :
                lab \in {l \in [2..(n + 1) -> GenericLabels] :
                            \A i \in 2..(n + 1) :
                                VoidOrPhrasing(l[i]) => \A j \in 2..(n + 1) : par[j] # i}} :
           <<n, par>> \in UNION {{<<m, p>> : p \in Shapes(m)} : m \in 1..MaxNodes}}

\* Sample(parents, labels): element i + 1 has parent parents[i] and label labels[i]
Sample(parents, labels) ==
    MkDoc(Len(parents), [i \in 2..(Len(parents) + 1) |-> parents[i - 1]],
          [i \in 2..(Len(parents) + 1) |-> labels[i - 1]])

SampleDocs == {
    Sample(<<1, 2, 2>>, <<"MAIN", "P", "P">>),
    Sample(<<1, 2, 3, 3, 2>>, <<"MAIN", "DIV", "P", "IMG", "P">>),
    Sample(<<1, 2, 2, 4>>, <<"MAIN", "P", "MAIN", "P">>),
    Sample(<<1, 2, 3, 3, 2>>, <<"MAIN", "UL", "LI", "LI", "P0">>),
    Sample(<<1, 2, 3, 4>>, <<"MAIN", "MAIN", "UL", "LI">>),
    Sample(<<1, 2, 3, 2>>, <<"MAIN", "P", "SPAN", "IMG0">>),
    Sample(<<1, 2>>, <<"DIV", "P">>) }


----------------------------------------------------------------------------
(* components/page-hash-mapper.js *)

\* the characters of the model, one-letter strings, in the regular expression's
\* classes; "_" is a word character of no class of the pattern
Upper == {"A", "C", "D", "G", "H", "I", "L", "M", "N", "O", "P", "R", "S", "T", "U",
          "V", "X"}
Lower == {"a", "b"}
Digit == {"0", "1"}
WordChar == Upper \cup Lower \cup Digit \cup {"_"}

\* element.tagName, spelled out
TagChars(tag) ==
    CASE tag = "P" -> <<"P">>
      [] tag = "IMG" -> <<"I", "M", "G">>
      [] tag = "LI" -> <<"L", "I">>
      [] tag = "UL" -> <<"U", "L">>
      [] tag = "OL" -> <<"O", "L">>
      [] tag = "DIV" -> <<"D", "I", "V">>
      [] tag = "MAIN" -> <<"M", "A", "I", "N">>
      [] tag = "SPAN" -> <<"S", "P", "A", "N">>
      [] tag = "X-P" -> <<"X", "-", "P">>
      [] OTHER -> <<>>

KindChars(kind) ==
    CASE kind = "HTML" -> <<"H", "T", "M", "L">>
      [] kind = "SRC" -> <<"S", "R", "C">>
      [] OTHER -> <<>>

\* generateRandomId(length): length || (6 or 8) characters of the alphabet
\* A-Z a-z 0-9; draw stands for the random choices
generateRandomId(length, draw) ==
    LET idLength == IF length # 0 THEN length ELSE IF draw % 2 = 0 THEN 6 ELSE 8 IN
    [i \in 1..idLength |-> IF (draw + i) % 3 = 0 THEN "A" ELSE IF (draw + i) % 3 = 1 THEN "a" ELSE "1"]

\* createHash's template `${prefix}${elementType}_${randomId}_${contentType}`,
\* as the text a node holds; a text that is no token reads "ab"
tokenString(item, prefix, idLength) ==
    IF item.kind \in {"HTML", "SRC"}
    THEN prefix \o TagChars(item.tag) \o <<"_">> \o generateRandomId(idLength, item.id)
            \o <<"_">> \o KindChars(item.kind)
    ELSE <<"a", "b">>

\* \b between text[i - 1] and text[i]
WordBoundary(text, i) ==
    (i > 1 /\ text[i - 1] \in WordChar) # (i <= Len(text) /\ text[i] \in WordChar)

\* the end of the longest run of characters of class from position i on
\* (i - 1 when there is none)
RunEnd(text, i, class) ==
    CHOOSE j \in (i - 1)..Len(text) :
        /\ \A k \in i..j : text[k] \in class
        /\ j = Len(text) \/ text[j + 1] \notin class

\* new RegExp(`\\b${hashPrefix}[A-Z0-9]+_[a-zA-Z0-9]+_[A-Z]+\\b`) tried at
\* position i of text: the end of the match, 0 when there is none. The
\* prefixes drawn consist of characters that stand for themselves in a
\* regular expression; each class is followed by a character outside it, so
\* the greedy run is the only candidate.
matchAt(text, i, prefix) ==
    LET a == i + Len(prefix) IN
    IF ~WordBoundary(text, i) \/ a - 1 > Len(text) \/ SubSeq(text, i, a - 1) # prefix THEN 0
    ELSE LET b == RunEnd(text, a, Upper \cup Digit) IN
         IF b < a \/ b + 1 > Len(text) \/ text[b + 1] # "_" THEN 0
         ELSE LET c == RunEnd(text, b + 2, Upper \cup Lower \cup Digit) IN
              IF c < b + 2 \/ c + 1 > Len(text) \/ text[c + 1] # "_" THEN 0
              ELSE LET d == RunEnd(text, c + 2, Upper) IN
                   IF d < c + 2 \/ ~WordBoundary(text, d + 1) THEN 0 ELSE d

\* textContent.match(markerPattern) on a text holding item yields item itself:
\* the match starts at the first character and ends at the last
markerPattern(item) ==
    LET text == tokenString(item, config.hashPrefix, config.hashIdLength) IN
    matchAt(text, 1, config.hashPrefix) = Len(text)

Info(element, path) == [element |-> element, path |-> path]

\* variant of visitText that records the element above the text node's parent
visitTextAbove(doc, root, markerMap, parent, item) ==
    IF ~markerPattern(item) THEN markerMap
    ELSE LET above == parentElement(doc, parent)
             newPath == getElementPath(doc, above, root)
         IN  IF ~MapHas(markerMap, item) \/ Len(newPath) > Len(MapGet(markerMap, item).path)
             THEN MapSet(markerMap, item, Info(above, newPath))
             ELSE markerMap

\* a text node of element parent holding item
visitText(doc, root, markerMap, parent, item) ==
    IF ~markerPattern(item) THEN markerMap
    ELSE LET newPath == getElementPath(doc, parent, root) IN
         IF ~MapHas(markerMap, item) \/ Len(newPath) > Len(MapGet(markerMap, item).path)
         THEN MapSet(markerMap, item, Info(parent, newPath))
         ELSE markerMap

RECURSIVE visitTexts(_, _, _, _, _)
visitTexts(doc, root, markerMap, parent, items) ==
    IF items = <<>> THEN markerMap
    ELSE visitTexts(doc, root, visitText(doc, root, markerMap, parent, Head(items)),
                    parent, Tail(items))

\* an element node: the IMG branch
visitElement(doc, root, markerMap, node) ==
    IF doc[node].tag = "IMG" /\ doc[node].src.kind # "NONE"
       /\ markerPattern(doc[node].src) /\ ~MapHas(markerMap, doc[node].src)
    THEN MapSet(markerMap, doc[node].src, Info(node, getElementPath(doc, node, root)))
    ELSE markerMap

\* the tree walk: each element, then the text nodes it owns
RECURSIVE walk(_, _, _, _)
walk(doc, root, markerMap, nodes) ==
    IF nodes = <<>> THEN markerMap
    ELSE walk(doc, root,
              visitTexts(doc, root, visitElement(doc, root, markerMap, Head(nodes)),
                         Head(nodes), doc[Head(nodes)].txt),
              Tail(nodes))

buildRenderedPageMarkerMap(doc, root) == walk(doc, root, <<>>, Subtree(doc, root))

\* variant of matchMarkers that copies every token found in the rendered page
matchRenderedMarkers(markerToSourcePath, renderedPageMarkerMap, markerToPagePath) ==
    markerToPagePath \o
        [i \in 1..Len(renderedPageMarkerMap) |->
            [key |-> renderedPageMarkerMap[i].key, val |-> renderedPageMarkerMap[i].val.path]]

\* markerToSourcePath.forEach((sourcePath, marker) => ...)
RECURSIVE matchMarkers(_, _, _)
matchMarkers(markerToSourcePath, renderedPageMarkerMap, markerToPagePath) ==
    IF markerToSourcePath = <<>> THEN markerToPagePath
    ELSE LET marker == Head(markerToSourcePath).key IN
         matchMarkers(Tail(markerToSourcePath), renderedPageMarkerMap,
                      IF MapHas(renderedPageMarkerMap, marker)
                      THEN MapSet(markerToPagePath, marker,
                                  MapGet(renderedPageMarkerMap, marker).path)
                      ELSE markerToPagePath)

buildPageMapping(renderedPageDoc, sourceDoc, markerToSourcePath, cfg) ==
    LET renderedPageRoot == docQuerySelector(renderedPageDoc, cfg.rootSelector)
        sourceRoot == docQuerySelector(sourceDoc, cfg.rootSelector)
    IN  IF renderedPageRoot = Null \/ sourceRoot = Null THEN <<>>
        ELSE IF markerToSourcePath = <<>> THEN <<>>
        ELSE matchMarkers(markerToSourcePath,
                          buildRenderedPageMarkerMap(renderedPageDoc, renderedPageRoot),
                          <<>>)

----------------------------------------------------------------------------
(* mapper-service.js *)

\* JSON.stringify(path), as the pieces of the string
RECURSIVE stringifySteps(_)
stringifySteps(path) ==
    IF path = <<>> THEN <<>>
    ELSE <<"{\"tag\":\"", Head(path).tag, "\",\"index\":", ToString(Head(path).index), "}">>
         \o (IF Tail(path) = <<>> THEN <<>> ELSE <<",">>)
         \o stringifySteps(Tail(path))

serializePathKey(path) == <<"[">> \o stringifySteps(path) \o <<"]">>

RECURSIVE buildReverseIndex(_, _)
buildReverseIndex(markerToPagePath, pagePathToMarker) ==
    IF markerToPagePath = <<>> THEN pagePathToMarker
    ELSE buildReverseIndex(Tail(markerToPagePath),
                           MapSet(pagePathToMarker,
                                  serializePathKey(Head(markerToPagePath).val),
                                  Head(markerToPagePath).key))

\* new MapperService({sourceDoc, markerToSourcePath, markerToPagePath, config})
MapperService(sourceDoc, markerToSourcePath, markerToPagePath, cfg) ==
    [sourceDoc |-> sourceDoc,
     markerToSourcePath |-> markerToSourcePath,
     markerToPagePath |-> markerToPagePath,
     rootSelector |-> cfg.rootSelector,
     pagePathToMarker |-> buildReverseIndex(markerToPagePath, <<>>)]

NoService == MapperService(<<>>, <<>>, <<>>, [rootSelector |-> ""])

\* findSourceElement(pageElement), pageElement an element of pageDoc
findSourceElement(svc, pageDoc, pageElement) ==
    LET pageRoot == docQuerySelector(pageDoc, svc.rootSelector) IN
    IF pageRoot = Null THEN Null
    ELSE LET pathKey == serializePathKey(getElementPath(pageDoc, pageElement, pageRoot)) IN
         IF ~MapHas(svc.pagePathToMarker, pathKey) THEN Null
         ELSE LET marker == MapGet(svc.pagePathToMarker, pathKey) IN
              IF ~MapHas(svc.markerToSourcePath, marker) THEN Null
              ELSE LET sourceRoot == docQuerySelector(svc.sourceDoc, svc.rootSelector) IN
                   IF sourceRoot = Null THEN Null
                   ELSE getElementByPath(svc.sourceDoc, sourceRoot,
                                         MapGet(svc.markerToSourcePath, marker))

\* getSourceDoc()
getSourceDoc(svc) == svc.sourceDoc

Pair(se, sp, pe, pp) ==
    [source |-> [element |-> se, path |-> sp], page |-> [element |-> pe, path |-> pp]]

\* variant of the loop that pushes a pair without looking at the source element
RECURSIVE mappedPairsUnchecked(_, _, _, _, _)
mappedPairsUnchecked(svc, sourceRoot, pageDoc, pageRoot, entries) ==
    IF entries = <<>> THEN <<>>
    ELSE LET marker == Head(entries).key
             sourcePath == Head(entries).val
             rest == mappedPairsUnchecked(svc, sourceRoot, pageDoc, pageRoot, Tail(entries))
         IN  IF ~MapHas(svc.markerToPagePath, marker) THEN rest
             ELSE LET pagePath == MapGet(svc.markerToPagePath, marker)
                      sourceElement == getElementByPath(svc.sourceDoc, sourceRoot, sourcePath)
                      pageElement == getElementByPath(pageDoc, pageRoot, pagePath)
                  IN  IF pageElement = Null THEN rest
                      ELSE <<Pair(sourceElement, sourcePath, pageElement, pagePath)>> \o rest

\* for (const [marker, sourcePath] of this.markerToSourcePath.entries())
RECURSIVE mappedPairs(_, _, _, _, _)
mappedPairs(svc, sourceRoot, pageDoc, pageRoot, entries) ==
    IF entries = <<>> THEN <<>>
    ELSE LET marker == Head(entries).key
             sourcePath == Head(entries).val
             rest == mappedPairs(svc, sourceRoot, pageDoc, pageRoot, Tail(entries))
         IN  IF ~MapHas(svc.markerToPagePath, marker) THEN rest
             ELSE LET pagePath == MapGet(svc.markerToPagePath, marker)
                      sourceElement == getElementByPath(svc.sourceDoc, sourceRoot, sourcePath)
                      pageElement == getElementByPath(pageDoc, pageRoot, pagePath)
                  IN  IF sourceElement = Null \/ pageElement = Null THEN rest
                      ELSE <<Pair(sourceElement, sourcePath, pageElement, pagePath)>> \o rest

Returned(pairs) == [threw |-> FALSE, pairs |-> pairs]

\* getAllMappedElements(pageDoc); an exception inside the loop ends the call
getAllMappedElements(svc, pageDoc) ==
    LET sourceRoot == docQuerySelector(svc.sourceDoc, svc.rootSelector) IN
    IF sourceRoot = Null THEN Returned(<<>>)
    ELSE LET pageRoot == docQuerySelector(pageDoc, svc.rootSelector) IN
         IF pageRoot = Null THEN Returned(<<>>)
         ELSE LET pairs == mappedPairs(svc, sourceRoot, pageDoc, pageRoot,
                                       svc.markerToSourcePath)
              IN  IF \E i \in 1..Len(pairs) : Thrown \in {pairs[i].source.element,
                                                           pairs[i].page.element}
                  THEN [threw |-> TRUE, pairs |-> <<>>]
                  ELSE Returned(pairs)

----------------------------------------------------------------------------
(* Decorators: the host's callables (root, doc) -> void | promise *)

\* decorators that return, or whose promise resolves
OkDecorators == {"noop", "addClass", "wrapSections", "wrapText", "loadBlocks", "injectToken",
                 "echoToken", "mergeText"}
\* a decorator that throws, one whose promise rejects, one whose promise never settles
BadDecorators == {"throws", "rejects", "hangs"}
Decorators == OkDecorators \cup BadDecorators

addClass(doc, root, name) == [doc EXCEPT ![root].cls = Append(@, name)]

\* wraps the children of root in one new <div>
wrapSections(doc, root) ==
    Append([doc EXCEPT ![root].kids = <<Len(doc) + 1>>],
           [Elem("DIV", doc[root].kids, <<>>, NoSrc) EXCEPT !.cls = <<"wrapper">>])

\* wraps the text of every element that holds a marker in a new <span>
RECURSIVE wrapTextOf(_, _)
wrapTextOf(doc, nodes) ==
    IF nodes = <<>> THEN doc
    ELSE LET n == Head(nodes) IN
         IF \E i \in 1..Len(doc[n].txt) : doc[n].txt[i].kind = "HTML"
         THEN wrapTextOf(Append([doc EXCEPT ![n].txt = <<>>,
                                            ![n].kids = <<Len(doc) + 1>> \o @],
                                [Elem("SPAN", <<>>, doc[n].txt, NoSrc) EXCEPT !.cls = <<"wrapper">>]),
                         Tail(nodes))
         ELSE wrapTextOf(doc, Tail(nodes))

\* a string of the token grammar that no embedding pass issued
ForeignToken == Tok("P", 0, "HTML")

\* appends to root a new <p> whose text has the shape of a token
injectToken(doc, root) ==
    Append([doc EXCEPT ![root].kids = Append(@, Len(doc) + 1)],
           Elem("P", <<>>, <<ForeignToken>>, NoSrc))

\* the elements below root that hold a token in a text node, in document order
tokenHolders(doc, root) ==
    SelectSeq(Descendants(doc, root),
              LAMBDA n : \E i \in 1..Len(doc[n].txt) : doc[n].txt[i].kind = "HTML")

\* repeats, in a text node of root itself, the text of the first element
\* below root that holds a token
echoToken(doc, root) ==
    LET holders == tokenHolders(doc, root)
    IN  IF holders = <<>> THEN doc
        ELSE [doc EXCEPT ![root].txt = @ \o doc[Head(holders)].txt]

RECURSIVE textOfAll(_, _)
textOfAll(doc, nodes) ==
    IF nodes = <<>> THEN <<>> ELSE doc[Head(nodes)].txt \o textOfAll(doc, Tail(nodes))

\* moves the text of every element that holds a token into the first of them
mergeText(doc, root) ==
    LET holders == tokenHolders(doc, root) IN
    IF Len(holders) < 2 THEN doc
    ELSE [n \in 1..Len(doc) |->
            IF n = Head(holders) THEN [doc[n] EXCEPT !.txt = textOfAll(doc, holders)]
            ELSE IF n \in SeqToSet(holders) THEN [doc[n] EXCEPT !.txt = <<>>]
            ELSE doc[n]]

\* what the decorator does before it returns
SyncEffect(d, doc, root) ==
    CASE d = "addClass" -> addClass(doc, root, "decorated")
      [] d = "wrapSections" -> wrapSections(doc, root)
      [] d = "wrapText" -> wrapTextOf(doc, Subtree(doc, root))
      [] d = "injectToken" -> injectToken(doc, root)
      [] d = "echoToken" -> echoToken(doc, root)
      [] d = "mergeText" -> mergeText(doc, root)
      [] OTHER -> doc

\* what the decorator does between returning and resolving its promise
AsyncEffect(d, doc, root) ==
    IF d = "loadBlocks" THEN addClass(doc, root, "loaded") ELSE doc

----------------------------------------------------------------------------
(* components/source-to-page-renderer.js *)

DefaultTimeout == 10000

Options(ds, setup, rs) ==
    [present |-> TRUE, hasDecorators |-> TRUE, decorators |-> ds,
     setupContext |-> setup, rootSelector |-> rs, timeout |-> DefaultTimeout]
\* options without a decorators property
OptionsNoList(setup, rs) == [Options(<<>>, setup, rs) EXCEPT !.hasDecorators = FALSE]
\* config.decorationOptions undefined
NoOptions == [OptionsNoList(FALSE, "main") EXCEPT !.present = FALSE]

Ev(e, k) == [e |-> e, k |-> k]

IdleRender ==
    [pc |-> "idle", options |-> NoOptions, markedHTML |-> <<>>,
     iframe |-> 0,          \* the local variable iframe (0: null)
     doc |-> <<>>,          \* iframeDoc, the sandbox document
     styled |-> FALSE,      \* the sandbox document holds the copied styles
     root |-> Null,
     k |-> 0,               \* the decorator being awaited
     inflight |-> {},       \* decorators invoked and not settled
     settled |-> {},        \* decorators whose promise resolved
     invoked |-> <<>>,      \* invocations in order, each with what had settled
     log |-> <<>>,          \* what the call did, in order
     result |-> <<>>, error |-> ""]

\* variant of the guard that tests only if (!decorators)
decoratorsAbsent(options) == ~options.hasDecorators

\* if (!decorators || decorators.length === 0)
decoratorsMissing(options) == ~options.hasDecorators \/ Len(options.decorators) = 0

\* variant of cleanupIframe that removes every simulator iframe of the host
cleanupAllIframes(frames, iframe) == {}

\* cleanupIframe(iframe) on the host's attached iframes
cleanupIframe(frames, iframe) ==
    IF iframe # 0 /\ iframe \in frames THEN frames \ {iframe} ELSE frames

\* variant of the catch block that only rethrows
catchKeep(frames, iframe) == frames

\* the catch block: if (iframe) iframe.remove(); throw error
catchRemove(frames, iframe) == IF iframe # 0 THEN frames \ {iframe} ELSE frames

\* variant of the catch block that logs the error and returns the markup
catchAndReturn(r, err) ==
    [r EXCEPT !.pc = "resolved", !.result = Serialize(r.doc),
              !.log = IF r.iframe # 0 THEN Append(@, Ev("remove", 0)) ELSE @]

catchError(r, err) ==
    [r EXCEPT !.pc = "rejected", !.error = err,
              !.log = IF r.iframe # 0 THEN Append(@, Ev("remove", 0)) ELSE @]

\* renderPage(markedHTML, options) up to its first await, as call c
renderPageCall(c, markedHTML, options) ==
    IF decoratorsMissing(options)
    THEN [IdleRender EXCEPT !.pc = "rejected", !.error = "config",
                            !.options = options, !.markedHTML = markedHTML]
    ELSE [IdleRender EXCEPT !.pc = "loading", !.options = options,
                            !.markedHTML = markedHTML,
                            !.log = <<Ev("appendChild", c)>>]

\* setupIframeContext: calls setupContext when it is a function
setupIframeContext(r) ==
    IF r.options.setupContext THEN [r EXCEPT !.log = Append(@, Ev("setupContext", 0))] ELSE r

copyStylesheets(r) == [r EXCEPT !.styled = TRUE, !.log = Append(@, Ev("copyStylesheets", 0))]

\* iframeDoc.open(); iframeDoc.write(markedHTML); iframeDoc.close()
writeMarkedHTML(r) ==
    [r EXCEPT !.doc = r.markedHTML, !.styled = FALSE, !.log = Append(@, Ev("write", 0))]

\* variant of the loop that calls every decorator from k on before it awaits any
RECURSIVE invokeAllAtOnce(_, _)
invokeAllAtOnce(r, k) ==
    LET called == [r EXCEPT !.invoked = Append(@, [k |-> k, seen |-> r.settled,
                                                       frame |-> r.iframe]),
                            !.log = Append(@, Ev("decorator", k)),
                            !.doc = SyncEffect(r.options.decorators[k], r.doc, r.root),
                            !.inflight = @ \cup {k}, !.k = k, !.pc = "awaiting"]
    IN  IF k < Len(r.options.decorators) THEN invokeAllAtOnce(called, k + 1) ELSE called

\* await decorator(root, iframeDoc) for decorator k, up to the await
invokeDecorator(r, k) ==
    LET d == r.options.decorators[k]
        called == [r EXCEPT !.invoked = Append(@, [k |-> k, seen |-> r.settled,
                                                       frame |-> r.iframe]),
                            !.log = Append(@, Ev("decorator", k))]
    IN  IF d = "throws" THEN catchError(called, "decorator")
        ELSE [called EXCEPT !.doc = SyncEffect(d, r.doc, r.root),
                            !.inflight = @ \cup {k}, !.k = k, !.pc = "awaiting"]

\* after the last decorator: serialize, clean up, return
finishRender(r) ==
    [r EXCEPT !.result = Serialize(r.doc), !.pc = "resolved",
              !.log = @ \o <<Ev("serialize", 0), Ev("remove", 0)>>]

\* for (const decorator of decorators), from decorator k on
decoratorLoop(r, k) ==
    IF k > Len(r.options.decorators) THEN finishRender(r) ELSE invokeDecorator(r, k)

\* variant of the try block that decorates only if (root) and returns the markup
afterLoadRootOptional(c, r) ==
    LET r1 == writeMarkedHTML(copyStylesheets(setupIframeContext([r EXCEPT !.iframe = c])))
        root == docQuerySelector(r1.doc, r1.options.rootSelector)
    IN  IF root = Null THEN finishRender(r1)
        ELSE decoratorLoop([r1 EXCEPT !.root = root], 1)

\* variant of afterLoad that looks for the default root "main"
afterLoadDefaultRoot(c, r) ==
    LET r1 == writeMarkedHTML(copyStylesheets(setupIframeContext([r EXCEPT !.iframe = c])))
        root == docQuerySelector(r1.doc, "main")
    IN  IF root = Null THEN catchError(r1, "notfound")
        ELSE decoratorLoop([r1 EXCEPT !.root = root], 1)

\* the load event of the iframe: the body of the try block up to the next await
afterLoad(c, r) ==
    LET r1 == writeMarkedHTML(copyStylesheets(setupIframeContext([r EXCEPT !.iframe = c])))
        root == docQuerySelector(r1.doc, r1.options.rootSelector)
    IN  IF root = Null THEN catchError(r1, "notfound")
        ELSE decoratorLoop([r1 EXCEPT !.root = root], 1)

\* the awaited promise of decorator k resolved: the rest of the loop
afterSettle(r) ==
    LET k == r.k
        r1 == [r EXCEPT !.doc = AsyncEffect(r.options.decorators[k], r.doc, r.root),
                        !.inflight = @ \ {k}, !.settled = @ \cup {k}]
    IN  decoratorLoop(r1, k + 1)

\* host iframes after a step of call c that took r to r2
framesAfter(frames, r2) ==
    CASE r2.pc = "resolved" -> cleanupIframe(frames, r2.iframe)
      [] r2.pc = "rejected" -> catchRemove(frames, r2.iframe)
      [] OTHER -> frames

----------------------------------------------------------------------------
(* orchestrator.js and the callers of the service *)

DefaultTargets == {"P", "IMG", "UL", "OL"}

\* DEFAULT_CONFIG.hashPrefix and hashIdLength
DefaultPrefix == <<"H", "A", "S", "H", "_">>
DefaultIdLength == 8

Config(rs, ts, opts) ==
    [rootSelector |-> rs, targetSelectors |-> ts, decorationOptions |-> opts,
     hashPrefix |-> DefaultPrefix, hashIdLength |-> DefaultIdLength]

NoEmbedded == [markedHTML |-> <<>>, markerMap |-> <<>>, markerToSourcePath |-> <<>>,
               owners |-> <<>>]
\* a call that was not made
NotAsked == [asked |-> FALSE, result |-> Null, doc |-> <<>>]
\* result, doc: what findSourceElement and getSourceDoc returned; again: what the
\* same calls returned when repeated
NoFind == [page |-> "none", el |-> Null, result |-> Null, doc |-> <<>>, again |-> NotAsked]
NoAll == [page |-> "none", result |-> Returned(<<>>)]

DecoratorLists == UNION {[1..n -> Decorators] : n \in 1..MaxDecorators}

\* the page documents a caller queries: the live page, which has the structure
\* of the simulated render, and a page without any root; each also owns one
\* element that was created and never attached
Detached == Elem("P", <<>>, <<PlainText>>, NoSrc)
PageDoc(page) ==
    IF page = "live" THEN Append(render[1].result, Detached)
    ELSE <<Elem("BODY", <<2>>, <<>>, NoSrc), Elem("P", <<>>, <<PlainText>>, NoSrc), Detached>>
Pages == {"live", "other"}

\* the renderPage calls, by the iframe each creates
Calls == {1, 2}

InitCommon ==
    /\ pc = "start"
    /\ embedded = NoEmbedded
    /\ hostFrames = {}
    /\ events = <<>>
    /\ service = NoService
    /\ lastFind = NoFind
    /\ lastAll = NoAll

\* every small source, under each root selector, simply decorated
InitSources ==
    /\ sourceHTML \in GenericDocs
    /\ \E rs \in RootSelectors, ts \in {DefaultTargets, DefaultTargets \cup {"DIV"}},
          ds \in {<<"noop">>, <<"wrapSections">>} :
            config = Config(rs, ts, Options(ds, FALSE, rs))
    /\ render = <<IdleRender>>
    /\ editsLeft = 0

\* the sample sources under every decoration option
InitDecorations ==
    /\ sourceHTML \in SampleDocs
    /\ \E opts \in {NoOptions}
                   \cup {OptionsNoList(st, "main") : st \in BOOLEAN}
                   \cup {Options(ds, st, rs) : ds \in DecoratorLists \cup {<<>>},
                                               st \in BOOLEAN, rs \in {"main", "div"}} :
            config = Config("main", DefaultTargets, opts)
    /\ render = <<IdleRender>>
    /\ editsLeft = 0

\* the sample sources, edited in place after initialization
InitEdited ==
    /\ sourceHTML \in SampleDocs
    /\ \E rs \in RootSelectors, ds \in {<<"noop">>, <<"wrapSections">>} :
            config = Config(rs, DefaultTargets, Options(ds, FALSE, rs))
    /\ render = <<IdleRender>>
    /\ editsLeft = MaxEdits

\* a host that calls renderPage a second time while the first call runs
InitConcurrent ==
    /\ sourceHTML = Sample(<<1, 2, 2>>, <<"MAIN", "P", "P">>)
    /\ \E ds \in DecoratorLists :
            config = Config("main", DefaultTargets, Options(ds, FALSE, "main"))
    /\ render = <<IdleRender, IdleRender>>
    /\ editsLeft = 0

\* the prefixes and id lengths a caller configures
Prefixes == {DefaultPrefix, <<"T", "_">>, <<"#", "H", "_">>}
IdLengths == {0, 1, DefaultIdLength}

\* sources with a custom element among the targets, under each prefix and id
\* length
InitTokens ==
    /\ sourceHTML \in {Sample(<<1, 2, 2>>, <<"MAIN", "X-P", "IMG">>),
                        Sample(<<1, 2, 2>>, <<"MAIN", "P", "IMG">>)}
    /\ \E prefix \in Prefixes, idLength \in IdLengths, ds \in {<<"noop">>, <<"echoToken">>} :
            config = [Config("main", DefaultTargets \cup {"X-P"}, Options(ds, FALSE, "main"))
                        EXCEPT !.hashPrefix = prefix, !.hashIdLength = idLength]
    /\ render = <<IdleRender>>
    /\ editsLeft = 0

Init ==
    InitCommon /\ (InitSources \/ InitDecorations \/ InitEdited \/ InitConcurrent
                    \/ InitTokens)

\* variant of the guard that lets every configuration through
optionsNeverMissing(cfg) == FALSE

\* if (!decorationOptions)
optionsMissing(cfg) == ~cfg.decorationOptions.present

\* initializeMapper(sourceHTML, config) up to its first await
InitializeMapper ==
    /\ pc = "start"
    /\ \E ids \in [Elements(sourceHTML) -> RandomIds] :
          embedded' = embedSourceMarkers(sourceHTML, config, ids)
    /\ IF optionsMissing(config)
       THEN /\ pc' = "failed"
            /\ events' = <<"embedding", "throw", "options">>
            /\ UNCHANGED <<render, hostFrames>>
       ELSE /\ pc' = "rendering"
            /\ events' = <<"embedding", "rendering">>
            /\ render' = [render EXCEPT
                            ![1] = renderPageCall(1, embedded'.markedHTML,
                                                  config.decorationOptions)]
            /\ hostFrames' = IF render'[1].pc = "loading" THEN hostFrames \cup {1}
                             ELSE hostFrames
    /\ UNCHANGED <<sourceHTML, config, service, editsLeft, lastFind, lastAll>>

\* renderPage(markedHTML, options) called again, as call 2, with the arguments
\* of the first call
RenderPageSecond ==
    /\ pc = "rendering"
    /\ 2 \in DOMAIN render
    /\ render[2].pc = "idle"
    /\ render' = [render EXCEPT
                    ![2] = renderPageCall(2, embedded.markedHTML, config.decorationOptions)]
    /\ hostFrames' = IF render'[2].pc = "loading" THEN hostFrames \cup {2} ELSE hostFrames
    /\ UNCHANGED <<sourceHTML, config, pc, embedded, events, service, editsLeft,
                   lastFind, lastAll>>

\* the iframe of call c fires its load event
IframeLoaded(c) ==
    /\ c \in DOMAIN render
    /\ render[c].pc = "loading"
    /\ render' = [render EXCEPT ![c] = afterLoad(c, render[c])]
    /\ hostFrames' = framesAfter(hostFrames, render'[c])
    /\ UNCHANGED <<sourceHTML, config, pc, embedded, events, service, editsLeft,
                   lastFind, lastAll>>

\* the promise call c awaits resolves (a decorator that returned no promise included)
DecoratorSettles(c) ==
    /\ c \in DOMAIN render
    /\ render[c].pc = "awaiting"
    /\ render[c].options.decorators[render[c].k] \in OkDecorators
    /\ render' = [render EXCEPT ![c] = afterSettle(render[c])]
    /\ hostFrames' = framesAfter(hostFrames, render'[c])
    /\ UNCHANGED <<sourceHTML, config, pc, embedded, events, service, editsLeft,
                   lastFind, lastAll>>

\* the promise call c awaits rejects
DecoratorRejects(c) ==
    /\ c \in DOMAIN render
    /\ render[c].pc = "awaiting"
    /\ render[c].options.decorators[render[c].k] = "rejects"
    /\ render' = [render EXCEPT ![c] = catchError(render[c], "decorator")]
    /\ hostFrames' = framesAfter(hostFrames, render'[c])
    /\ UNCHANGED <<sourceHTML, config, pc, embedded, events, service, editsLeft,
                   lastFind, lastAll>>

\* variant of the mapping phase that parses the marked markup as Source Document
InitializeMapperResumeMarked ==
    /\ pc = "rendering"
    /\ render[1].pc = "resolved"
    /\ LET renderedPageDoc == render[1].result
           sourceDoc == embedded.markedHTML
           markerToPagePath == buildPageMapping(renderedPageDoc, sourceDoc,
                                                embedded.markerToSourcePath, config)
       IN  service' = MapperService(sourceDoc, embedded.markerToSourcePath,
                                    markerToPagePath, config)
    /\ pc' = "ready"
    /\ events' = events \o <<"mapping", "service">>
    /\ UNCHANGED <<sourceHTML, config, embedded, render, hostFrames, editsLeft,
                   lastFind, lastAll>>

\* initializeMapper after await renderPage(...) returned the rendered markup
InitializeMapperResume ==
    /\ pc = "rendering"
    /\ render[1].pc = "resolved"
    /\ LET renderedPageDoc == render[1].result
           sourceDoc == sourceHTML
           markerToPagePath == buildPageMapping(renderedPageDoc, sourceDoc,
                                                embedded.markerToSourcePath, config)
       IN  service' = MapperService(sourceDoc, embedded.markerToSourcePath,
                                    markerToPagePath, config)
    /\ pc' = "ready"
    /\ events' = events \o <<"mapping", "service">>
    /\ UNCHANGED <<sourceHTML, config, embedded, render, hostFrames, editsLeft,
                   lastFind, lastAll>>

\* variant of the catch block that returns a service over what was built so far
InitializeMapperCatchPartial ==
    /\ pc = "rendering"
    /\ render[1].pc = "rejected"
    /\ service' = MapperService(sourceHTML, embedded.markerToSourcePath, <<>>, config)
    /\ pc' = "ready"
    /\ events' = Append(events, "service")
    /\ UNCHANGED <<sourceHTML, config, embedded, render, hostFrames, editsLeft,
                   lastFind, lastAll>>

\* initializeMapper's catch block after renderPage rejected
InitializeMapperCatch ==
    /\ pc = "rendering"
    /\ render[1].pc = "rejected"
    /\ pc' = "failed"
    /\ events' = events \o <<"throw", render[1].error>>
    /\ UNCHANGED <<sourceHTML, config, embedded, render, hostFrames, service, editsLeft,
                   lastFind, lastAll>>

\* variant of findSourceElement that deletes the index entry it has read
FindSourceElementConsuming(page, el) ==
    /\ pc = "ready"
    /\ lastFind = NoFind /\ lastAll = NoAll
    /\ lastFind' = [NoFind EXCEPT !.page = page, !.el = el,
                      !.result = findSourceElement(service, PageDoc(page), el),
                      !.doc = getSourceDoc(service)]
    /\ LET pageRoot == docQuerySelector(PageDoc(page), service.rootSelector)
           pathKey == IF pageRoot = Null THEN <<>>
                      ELSE serializePathKey(getElementPath(PageDoc(page), el, pageRoot))
       IN  service' = [service EXCEPT !.pagePathToMarker =
                          SelectSeq(@, LAMBDA e : e.key # pathKey)]
    /\ UNCHANGED <<sourceHTML, config, pc, embedded, render, hostFrames, events,
                   editsLeft, lastAll>>

\* service.findSourceElement(pageElement), and service.getSourceDoc()
FindSourceElement(page, el) ==
    /\ pc = "ready"
    /\ lastFind = NoFind /\ lastAll = NoAll
    /\ lastFind' = [NoFind EXCEPT !.page = page, !.el = el,
                      !.result = findSourceElement(service, PageDoc(page), el),
                      !.doc = getSourceDoc(service)]
    /\ UNCHANGED <<sourceHTML, config, pc, embedded, render, hostFrames, events, service,
                   editsLeft, lastAll>>

\* the caller repeats its last findSourceElement and getSourceDoc calls
FindSourceElementAgain ==
    /\ pc = "ready"
    /\ lastFind # NoFind /\ ~lastFind.again.asked
    /\ lastFind' = [lastFind EXCEPT
                      !.again = [asked |-> TRUE,
                                 result |-> findSourceElement(service, PageDoc(lastFind.page),
                                                              lastFind.el),
                                 doc |-> getSourceDoc(service)]]
    /\ UNCHANGED <<sourceHTML, config, pc, embedded, render, hostFrames, events, service,
                   editsLeft, lastAll>>

\* variant of getAllMappedElements that drops from the Page-Path Registry the
\* tokens it could not resolve
GetAllMappedElementsPruning(page) ==
    /\ pc = "ready"
    /\ lastFind = NoFind /\ lastAll = NoAll
    /\ lastAll' = [page |-> page, result |-> getAllMappedElements(service, PageDoc(page))]
    /\ service' = [service EXCEPT !.markerToPagePath =
                      SelectSeq(@, LAMBDA e :
                          \E i \in 1..Len(lastAll'.result.pairs) :
                              lastAll'.result.pairs[i].page.path = e.val)]
    /\ UNCHANGED <<sourceHTML, config, pc, embedded, render, hostFrames, events,
                   editsLeft, lastFind>>

\* service.getAllMappedElements(pageDoc)
GetAllMappedElements(page) ==
    /\ pc = "ready"
    /\ lastFind = NoFind /\ lastAll = NoAll
    /\ lastAll' = [page |-> page, result |-> getAllMappedElements(service, PageDoc(page))]
    /\ UNCHANGED <<sourceHTML, config, pc, embedded, render, hostFrames, events, service,
                   editsLeft, lastFind>>

(* In-place edits of the document getSourceDoc() returns *)
InsertTags == {"P", "DIV"}
Containers == {"BODY", "MAIN", "DIV", "UL", "LI"}

insertChild(doc, parent, pos, tag) ==
    Append([doc EXCEPT ![parent].kids =
                SubSeq(@, 1, pos) \o <<Len(doc) + 1>> \o SubSeq(@, pos + 1, Len(@))],
           Elem(tag, <<>>, IF tag = "P" THEN <<PlainText>> ELSE <<>>, NoSrc))

removeChild(doc, n) ==
    [doc EXCEPT ![parentElement(doc, n)].kids = SelectSeq(@, LAMBDA x : x # n)]

\* what every edit does besides changing the document
Edited(doc) ==
    /\ service' = [service EXCEPT !.sourceDoc = doc]
    /\ editsLeft' = editsLeft - 1
    /\ lastFind' = NoFind
    /\ lastAll' = NoAll
    /\ UNCHANGED <<sourceHTML, config, pc, embedded, render, hostFrames, events>>

\* parent.insertBefore(newElement, parent.children[pos])
InsertSourceElement ==
    /\ pc = "ready"
    /\ editsLeft > 0
    /\ \E parent \in Attached(service.sourceDoc), tag \in InsertTags :
          /\ service.sourceDoc[parent].tag \in Containers
          /\ \E pos \in 0..Len(service.sourceDoc[parent].kids) :
                Edited(insertChild(service.sourceDoc, parent, pos, tag))

\* element.remove()
RemoveSourceElement ==
    /\ pc = "ready"
    /\ editsLeft > 0
    /\ \E n \in Attached(service.sourceDoc) \ {BODY} :
          Edited(removeChild(service.sourceDoc, n))

Next ==
    \/ InitializeMapper
    \/ RenderPageSecond
    \/ \E c \in DOMAIN render : IframeLoaded(c)
    \/ \E c \in DOMAIN render : DecoratorSettles(c)
    \/ \E c \in DOMAIN render : DecoratorRejects(c)
    \/ InitializeMapperResume
    \/ InitializeMapperCatch
    \/ \E page \in Pages : \E el \in 0..Len(PageDoc(page)) : FindSourceElement(page, el)
    \/ FindSourceElementAgain
    \/ \E page \in Pages : GetAllMappedElements(page)
    \/ InsertSourceElement
    \/ RemoveSourceElement

Spec == Init /\ [][Next]_vars

\* the event loop runs every continuation that is ready: the load event of an
\* attached iframe, the code after an await whose promise has settled. The
\* handlers that rebuild a document have their weak fairness written out, with
\* the handler's guard standing for its enabledness.
FairSpec ==
    /\ Spec
    /\ WF_vars(\E c \in DOMAIN render : DecoratorRejects(c))
    /\ WF_vars(InitializeMapperCatch)
    /\ \A c \in Calls :
          /\ <>[](c \in DOMAIN render /\ render[c].pc = "loading")
                => []<><<IframeLoaded(c)>>_vars
          /\ <>[](c \in DOMAIN render /\ render[c].pc = "awaiting"
                    /\ render[c].options.decorators[render[c].k] \in OkDecorators)
                => []<><<DecoratorSettles(c)>>_vars
    /\ <>[](pc = "rendering" /\ render[1].pc = "resolved")
          => []<><<InitializeMapperResume>>_vars

----------------------------------------------------------------------------
(* What the queries are asked about *)

\* the live page and its root
livePage == PageDoc("live")
liveRoot == docQuerySelector(livePage, service.rootSelector)

\* the page element standing at the page path recorded for a token
pageElementOf(marker) ==
    IF liveRoot # Null /\ MapHas(service.markerToPagePath, marker)
    THEN getElementByPath(livePage, liveRoot, MapGet(service.markerToPagePath, marker))
    ELSE Null

\* the tokens embedded in the source with the element each was created for
Owners == {embedded.owners[i] : i \in 1..Len(embedded.owners)}

\* no two elements drew the same token
DistinctTokens ==
    \A i, j \in 1..Len(embedded.owners) :
        i # j => embedded.owners[i].marker # embedded.owners[j].marker

\* the mapper is ready and the source is as it was parsed
Pristine == pc = "ready" /\ service.sourceDoc = sourceHTML

\* the last findSourceElement call was made on the page element of owner o
AskedFor(o) ==
    /\ lastFind.page = "live"
    /\ lastFind.el # Null
    /\ lastFind.el = pageElementOf(o.marker)

----------------------------------------------------------------------------
(* Claims on the lookup *)

\* C1: with the default root selector "main" and decorators that only wrap or
\* add classes, findSourceElement on the page element at the recorded page path
\* of a tracked source element s that is not a list returns exactly s (stated
\* for runs in which every element drew its own token).
C1_ReturnsSource ==
    (Pristine /\ config.rootSelector = "main" /\ DistinctTokens) =>
        \A o \in Owners :
            (sourceHTML[o.element].tag \notin {"UL", "OL"} /\ AskedFor(o))
                => lastFind.result = o.element

\* C2: under every configured root selector, findSourceElement on the page
\* element whose token was embedded in source element s returns s or null and
\* never another source element (stated for runs in which every element drew
\* its own token).
C2_NeverWrongMatch ==
    (Pristine /\ DistinctTokens) =>
        \A o \in Owners : AskedFor(o) => lastFind.result \in {o.element, Null}

\* the leaf target elements below the source root
LeafTargets ==
    LET root == docQuerySelector(sourceHTML, config.rootSelector) IN
    IF root = Null THEN {}
    ELSE {n \in SeqToSet(querySelectorAll(sourceHTML, root, config.targetSelectors)) :
            ~shouldSkipElement(sourceHTML, n, config.targetSelectors)}

\* C3: with N leaf target elements, none a list and each with content, and an
\* identity decorator, both registries hold N entries and the page path of
\* every token equals its source path (stated for the default root selector
\* and runs in which every element drew its own token).
C3_IdentityRegistries ==
    (Pristine /\ DistinctTokens /\ config.rootSelector = "main"
        /\ config.decorationOptions.decorators = <<"noop">>
        /\ \A n \in LeafTargets :
              /\ sourceHTML[n].tag \notin {"UL", "OL"}
              /\ sourceHTML[n].txt # <<>> \/ sourceHTML[n].src # NoSrc) =>
        /\ Len(service.markerToSourcePath) = Cardinality(LeafTargets)
        /\ Len(service.markerToPagePath) = Cardinality(LeafTargets)
        /\ \A marker \in MapKeys(service.markerToSourcePath) :
              /\ MapHas(service.markerToPagePath, marker)
              /\ MapGet(service.markerToPagePath, marker)
                    = MapGet(service.markerToSourcePath, marker)

\* the page element asked about, in its document
askedDoc == PageDoc(lastFind.page)
askedRoot == docQuerySelector(askedDoc, service.rootSelector)
asked == lastFind.el

\* element el of doc was created by a decorator
IsWrapper(doc, el) == el \in 1..Len(doc) /\ "wrapper" \in SeqToSet(doc[el].cls)

\* the tokens element el of doc holds in its own text nodes or its src
OwnTokens(doc, el) ==
    IF el \notin 1..Len(doc) THEN {}
    ELSE {item \in SeqToSet(doc[el].txt) \cup {doc[el].src} : markerPattern(item)}

\* what the recorded source path of a token resolves to now
resolveToken(marker) ==
    LET sourceRoot == docQuerySelector(service.sourceDoc, service.rootSelector) IN
    IF sourceRoot = Null \/ ~MapHas(service.markerToSourcePath, marker) THEN Null
    ELSE getElementByPath(service.sourceDoc, sourceRoot,
                          MapGet(service.markerToSourcePath, marker))

\* the asked element is the root, lies outside the root, or its document has no root
RootOrOutside ==
    \/ askedRoot = Null
    \/ asked = askedRoot
    \/ asked \notin SeqToSet(Subtree(askedDoc, askedRoot))

RecordedHere ==
    IF lastFind.page # "live" THEN {}
    ELSE {marker \in OwnTokens(askedDoc, asked) : pageElementOf(marker) = asked}

Drifted == pc = "ready" /\ service.sourceDoc # sourceHTML

\* before any edit the recorded source path of owner o resolved to its element
ResolvedAtFirst(o) ==
    LET root == docQuerySelector(sourceHTML, service.rootSelector) IN
    /\ root # Null
    /\ getElementByPath(sourceHTML, root, MapGet(service.markerToSourcePath, o.marker))
          = o.element

\* C5 as stated: after in-place structural edits of the Source Document,
\* findSourceElement for a previously mapped page element returns the source
\* element its token was embedded in or null, never another element (stated
\* for elements the lookup found before the edit).
C5_FailClosed ==
    (Drifted /\ DistinctTokens) =>
        \A o \in Owners :
            (AskedFor(o) /\ ResolvedAtFirst(o))
                => lastFind.result \in {o.element, Null}

\* the source elements whose structural path from the source root is path now
StandingAt(path) ==
    LET sourceRoot == docQuerySelector(service.sourceDoc, service.rootSelector) IN
    IF sourceRoot = Null THEN {}
    ELSE {n \in SeqToSet(Subtree(service.sourceDoc, sourceRoot)) :
            getElementPath(service.sourceDoc, n, sourceRoot) = path}

\* C5, amended: after in-place structural edits, findSourceElement for a
\* previously mapped page element returns the element that now stands at the
\* token's recorded source path, indices and tags alike, and null when no
\* element stands there; the element returned may be another one than the
\* token was embedded in.
C5_ReturnsWhatStandsAtPath ==
    Drifted =>
        \A o \in Owners :
            AskedFor(o) =>
                LET now == StandingAt(MapGet(service.markerToSourcePath, o.marker)) IN
                IF now = {} THEN lastFind.result = Null ELSE lastFind.result \in now

\* after an edit the lookup returned another element than the original
C5_Witness ==
    /\ Drifted /\ DistinctTokens
    /\ \E o \in Owners :
          AskedFor(o) /\ ResolvedAtFirst(o) /\ lastFind.result \notin {o.element, Null}

\* the element i steps down path from root, by child index alone
RECURSIVE Reach(_, _, _, _)
Reach(doc, root, path, i) ==
    IF i = 0 THEN root
    ELSE LET above == Reach(doc, root, path, i - 1) IN
         IF above = Null THEN Null
         ELSE LET kids == children(doc, above) IN
              IF path[i].index \in 0..(Len(kids) - 1) THEN kids[path[i].index + 1]
              ELSE Null

\* some step of path finds no child at its index, or a child of another tag
Broken(doc, root, path) ==
    \E i \in 1..Len(path) :
        /\ Reach(doc, root, path, i - 1) # Null
        /\ \/ Reach(doc, root, path, i) = Null
           \/ tagName(doc, Reach(doc, root, path, i)) # path[i].tag

sourceRootNow == docQuerySelector(service.sourceDoc, service.rootSelector)

\* the token the Reverse Page Index holds for the asked element, if any
askedKey == serializePathKey(getElementPath(askedDoc, asked, askedRoot))

\* getAllMappedElements(pageDoc) leaves the pair of marker out
MissesPair(pageDoc, marker) ==
    LET pageRoot == docQuerySelector(pageDoc, service.rootSelector) IN
    \/ pageRoot = Null
    \/ sourceRootNow = Null
    \/ ~MapHas(service.markerToPagePath, marker)
    \/ Broken(service.sourceDoc, sourceRootNow, MapGet(service.markerToSourcePath, marker))
    \/ Broken(pageDoc, pageRoot, MapGet(service.markerToPagePath, marker))

\* the service built over a Source-Path Registry without marker
Without(marker) ==
    [service EXCEPT !.markerToSourcePath = SelectSeq(@, LAMBDA e : e.key # marker)]

\* C6: a query-time miss is a value, never an exception: findSourceElement
\* returns null when the page root is absent, the page path is not in the
\* Reverse Page Index, the token has no source path, the source root is absent,
\* a path index has no child, or a child's tag differs from the recorded tag;
\* getAllMappedElements returns without the pair in each of these cases.
C6_MissIsNull ==
    /\ lastFind.page # "none" =>
          /\ lastFind.result # Thrown
          /\ askedRoot = Null => lastFind.result = Null
          /\ (askedRoot # Null /\ ~MapHas(service.pagePathToMarker, askedKey))
                => lastFind.result = Null
          /\ sourceRootNow = Null => lastFind.result = Null
          /\ \A o \in Owners :
                AskedFor(o) =>
                    /\ findSourceElement(Without(MapGet(service.pagePathToMarker, askedKey)),
                                         askedDoc, asked) = Null
                    /\ (sourceRootNow # Null
                          /\ Broken(service.sourceDoc, sourceRootNow,
                                    MapGet(service.markerToSourcePath,
                                           MapGet(service.pagePathToMarker, askedKey))))
                        => lastFind.result = Null
    /\ lastAll.page # "none" =>
          /\ ~lastAll.result.threw
          /\ \A i \in 1..Len(lastAll.result.pairs) :
                /\ lastAll.result.pairs[i].source.element \notin {Null, Thrown}
                /\ lastAll.result.pairs[i].page.element \notin {Null, Thrown}
          /\ Len(lastAll.result.pairs)
                = Cardinality({marker \in MapKeys(service.markerToSourcePath) :
                                  ~MissesPair(PageDoc(lastAll.page), marker)})

\* a mapped page element was asked about after an edit took away the child a
\* step of its source path names, and the answer was null
C6_Witness ==
    /\ Drifted
    /\ \E o \in Owners :
          /\ AskedFor(o)
          /\ sourceRootNow # Null
          /\ \E i \in 1..Len(MapGet(service.markerToSourcePath, o.marker)) :
                Reach(service.sourceDoc, sourceRootNow,
                      MapGet(service.markerToSourcePath, o.marker), i) = Null
    /\ lastFind.result = Null

----------------------------------------------------------------------------
(* Claims on renderPage *)

\* call c awaits a decorator whose promise never settles
AwaitsForever(c) ==
    /\ render[c].pc = "awaiting"
    /\ render[c].options.decorators[render[c].k] = "hangs"

\* C7: when a decorator returns a promise that never settles, renderPage
\* eventually rejects with a timeout error and the sandbox is torn down; the
\* call does not stay pending forever.
C7_TimesOut ==
    AwaitsForever(1)
        ~> (render[1].pc = "rejected" /\ render[1].error = "timeout" /\ 1 \notin hostFrames)

\* call c has settled
Settled(c) == render[c].pc \in {"resolved", "rejected"}

\* event e of the log of call c, and where it stands (0: not in the log)
Logged(c, e) == \E i \in 1..Len(render[c].log) : render[c].log[i].e = e
PlaceOf(c, e) ==
    IF Logged(c, e) THEN CHOOSE i \in 1..Len(render[c].log) : render[c].log[i].e = e ELSE 0

\* C8: whenever renderPage settles, by resolving or by rejecting because the
\* root is missing or a decorator throws or rejects, the iframe it created is
\* no longer attached to the host document; on success the sandbox document is
\* serialized before the iframe is removed and the serialized string is what
\* is returned.
C8_SandboxReleased ==
    \A c \in DOMAIN render :
        Settled(c) =>
            /\ c \notin hostFrames
            /\ Logged(c, "appendChild") => Logged(c, "remove")
            /\ render[c].pc = "resolved" =>
                  /\ Logged(c, "serialize")
                  /\ PlaceOf(c, "serialize") < PlaceOf(c, "remove")
                  /\ render[c].result = Serialize(render[c].doc)

\* a call rejected after its iframe was attached, and the iframe is gone
C8_Witness ==
    /\ render[1].pc = "rejected"
    /\ render[1].error \in {"notfound", "decorator"}
    /\ Logged(1, "appendChild")
    /\ 1 \notin hostFrames

\* C9: renderPage invokes the decorators strictly in list order, each exactly
\* once on a successful run, and decorator k+1 only after decorator k returned
\* and its promise resolved: at most one decorator is in flight, and every
\* later decorator runs on the sandbox the earlier ones left.
C9_Sequential ==
    \A c \in DOMAIN render :
        /\ \A i \in 1..Len(render[c].invoked) :
              /\ render[c].invoked[i].k = i
              /\ render[c].invoked[i].seen = 1..(i - 1)
        /\ Cardinality(render[c].inflight) <= 1
        /\ render[c].pc = "resolved" =>
              /\ Len(render[c].invoked) = Len(render[c].options.decorators)
              /\ render[c].settled = 1..Len(render[c].options.decorators)

\* two decorators, the first one asynchronous, ran and the call resolved
C9_Witness ==
    /\ render[1].pc = "resolved"
    /\ Len(render[1].options.decorators) = 2
    /\ render[1].options.decorators[1] = "loadBlocks"
    /\ Len(render[1].invoked) = 2

\* the options of call c carry no decorator
WithoutDecorators(c) ==
    /\ render[c].pc # "idle"
    /\ \/ ~render[c].options.hasDecorators
       \/ render[c].options.decorators = <<>>

\* C10: renderPage called with an absent or empty decorator list rejects
\* immediately with a configuration error: no iframe is created, setupContext
\* is not invoked and the host document is left unchanged.
C10_RequiresDecorators ==
    \A c \in DOMAIN render :
        WithoutDecorators(c) =>
            /\ render[c].pc = "rejected"
            /\ render[c].error = "config"
            /\ render[c].iframe = 0
            /\ render[c].log = <<>>
            /\ hostFrames = {}

\* a call with an empty decorator list and a setupContext callable was rejected
C10_Witness ==
    /\ render[1].pc = "rejected"
    /\ render[1].options.hasDecorators
    /\ render[1].options.decorators = <<>>
    /\ render[1].options.setupContext

\* the markup written into the sandbox of call c has no root
RootMissing(c) ==
    /\ render[c].pc \notin {"idle", "loading"}
    /\ ~WithoutDecorators(c)
    /\ docQuerySelector(render[c].markedHTML, render[c].options.rootSelector) = Null

\* C11: when the marked markup written into the sandbox has no element
\* matching the render root selector, renderPage rejects with a not-found
\* error and no decorator is ever invoked.
C11_RootRequired ==
    \A c \in DOMAIN render :
        RootMissing(c) =>
            /\ render[c].pc = "rejected"
            /\ render[c].error = "notfound"
            /\ render[c].invoked = <<>>
            /\ ~Logged(c, "decorator")
            /\ render[c].result = <<>>

\* a call with two decorators was rejected for its missing root
C11_Witness ==
    /\ RootMissing(1)
    /\ Len(render[1].options.decorators) = 2
    /\ render[1].pc = "rejected"

\* decorator k of call c failed: it threw when called, or the promise it
\* returned has rejected
Failed(c, k) ==
    /\ k \in 1..Len(render[c].invoked)
    /\ \/ render[c].options.decorators[k] = "throws"
       \/ /\ render[c].options.decorators[k] = "rejects"
          /\ ~(render[c].pc = "awaiting" /\ render[c].k = k)

\* C12: when decorator k throws or the promise it returned rejects,
\* renderPage rejects with that error, no decorator after k is invoked and no
\* rendered markup is returned.
C12_DecoratorFailure ==
    \A c \in DOMAIN render :
        \A k \in 1..MaxDecorators + 1 :
            Failed(c, k) =>
                /\ render[c].pc = "rejected"
                /\ render[c].error = "decorator"
                /\ Len(render[c].invoked) = k
                /\ \A i \in 1..Len(render[c].log) :
                      render[c].log[i].e = "decorator" => render[c].log[i].k <= k
                /\ render[c].result = <<>>
                /\ ~Logged(c, "serialize")

\* the first of two decorators returned a promise that rejected
C12_Witness ==
    /\ Len(render[1].options.decorators) = 2
    /\ render[1].options.decorators[1] = "rejects"
    /\ Failed(1, 1)
    /\ render[1].pc = "rejected"

----------------------------------------------------------------------------
(* Claims on initializeMapper *)

\* C13: initializeMapper passes through embedding, rendering, path mapping
\* and service construction in this order, each phase starting only after the
\* one before completed; when a phase throws or rejects no later phase runs,
\* the call rejects and no MapperService is constructed; a MapperService is
\* returned only after all phases completed.
C13_PhaseOrder ==
    /\ pc = "start" => events = <<>> /\ service = NoService
    /\ pc = "rendering" =>
          /\ events = <<"embedding", "rendering">>
          /\ embedded # NoEmbedded
          /\ service = NoService
    /\ pc = "failed" =>
          /\ \/ events = <<"embedding", "throw", "options">>
             \/ /\ events = <<"embedding", "rendering", "throw", render[1].error>>
                /\ render[1].pc = "rejected"
          /\ service = NoService
    /\ pc = "ready" =>
          /\ events = <<"embedding", "rendering", "mapping", "service">>
          /\ render[1].pc = "resolved"
          /\ service # NoService
    /\ service # NoService => pc = "ready"

\* initialization failed in the render phase, after a decorator had run
C13_Witness ==
    /\ pc = "failed"
    /\ render[1].error = "decorator"
    /\ Len(render[1].invoked) = 2
    /\ service = NoService

\* C14: initializeMapper called with a configuration without
\* decorationOptions rejects with a configuration error, without creating a
\* sandbox and without invoking renderPage.
C14_OptionsRequired ==
    (pc # "start" /\ ~config.decorationOptions.present) =>
        /\ pc = "failed"
        /\ events = <<"embedding", "throw", "options">>
        /\ \A c \in DOMAIN render : render[c] = IdleRender
        /\ hostFrames = {}
        /\ service = NoService

\* a call without decorationOptions has failed, after embedding tokens
C14_Witness ==
    /\ ~config.decorationOptions.present
    /\ pc = "failed"
    /\ embedded.markerToSourcePath # <<>>

\* the source given to initializeMapper had no element matching config.rootSelector
SourceRootless ==
    /\ pc # "start"
    /\ docQuerySelector(embedded.markedHTML, config.rootSelector) = Null

\* the decoration options name a root the marked markup has
RenderRootFound ==
    docQuerySelector(embedded.markedHTML, config.decorationOptions.rootSelector) # Null

\* C15 as stated: a source without an element matching config.rootSelector
\* makes initializeMapper reject and return no service, whatever root selector
\* the decoration options give.
C15_RejectsWithoutSourceRoot ==
    (SourceRootless /\ pc # "rendering") => (pc = "failed" /\ service = NoService)

\* C15, amended: on a source without an element matching config.rootSelector
\* embedding leaves the markup unchanged and initializeMapper rejects with the
\* not-found error only when the markup has no element matching the root
\* selector of the decoration options; when that selector matches and the
\* decorators succeed it resolves with a service whose registries are empty,
\* and every lookup on that service returns null or no pair.
C15_RejectsWithoutRenderRoot ==
    SourceRootless =>
        /\ embedded.markerToSourcePath = <<>>
        /\ (pc = "failed" /\ render[1].error = "notfound") => ~RenderRootFound
        /\ (~RenderRootFound /\ config.decorationOptions.present /\ ~WithoutDecorators(1)) =>
              /\ pc \in {"rendering", "failed"}
              /\ render[1].pc \in {"loading", "rejected"}
              /\ render[1].pc = "rejected" => render[1].error = "notfound"
        /\ pc = "ready" =>
              /\ RenderRootFound
              /\ service.sourceDoc = embedded.markedHTML
              /\ service.markerToSourcePath = <<>>
              /\ service.markerToPagePath = <<>>
              /\ service.pagePathToMarker = <<>>
              /\ lastFind.result = Null
              /\ lastAll.result = Returned(<<>>)

\* a source without "main" was initialized under the decoration root "div", and
\* an element of the live page was looked up
C15_Witness ==
    /\ SourceRootless
    /\ config.decorationOptions.rootSelector = "div"
    /\ pc = "ready"
    /\ lastFind.page = "live" /\ lastFind.el = 3

----------------------------------------------------------------------------
(* Claims on the embedder and the page mapper *)

\* the rendered documents buildPageMapping may be given: the rendered page
\* and a page without any root
RenderedDocs == {render[1].result, PageDoc("other")}

\* C16: a missing root is not fatal outside the render phase: embedSourceMarkers
\* on markup without a root match returns the input unchanged with an empty
\* token table and an empty Source-Path Registry, and buildPageMapping on a
\* rendered document without a root match returns an empty Page-Path Registry.
C16_MissingRootNonFatal ==
    /\ SourceRootless =>
          /\ embedded.markedHTML = sourceHTML
          /\ embedded.markerMap = <<>>
          /\ embedded.markerToSourcePath = <<>>
    /\ pc = "ready" =>
          /\ docQuerySelector(render[1].result, config.rootSelector) = Null
                => service.markerToPagePath = <<>>
          /\ \A rs \in RootSelectors, doc \in RenderedDocs :
                docQuerySelector(doc, rs) = Null =>
                    buildPageMapping(doc, sourceHTML, embedded.markerToSourcePath,
                                     [config EXCEPT !.rootSelector = rs]) = <<>>

\* a source with a target element and no root went through embedding and,
\* rendered under another root, through path mapping
C16_Witness ==
    /\ SourceRootless
    /\ \E n \in Elements(sourceHTML) : sourceHTML[n].tag = "P"
    /\ pc = "ready"
    /\ docQuerySelector(render[1].result, config.rootSelector) = Null

\* the elements of the source under the root that match a target selector
TargetsUnderRoot ==
    LET root == docQuerySelector(sourceHTML, config.rootSelector) IN
    IF root = Null THEN {}
    ELSE {n \in SeqToSet(Descendants(sourceHTML, root)) :
            sourceHTML[n].tag \in config.targetSelectors}

\* element n of the source has a descendant matching a target selector
HasNestedTarget(n) ==
    \E d \in SeqToSet(Descendants(sourceHTML, n)) : sourceHTML[d].tag \in config.targetSelectors

\* the element of the marked markup standing where element n stands in the source
MarkedAt(n) ==
    getElementByPath(embedded.markedHTML, BODY, getElementPath(sourceHTML, n, BODY))

C18_TokensDistinct ==
    pc # "start" =>
        /\ DistinctTokens
        /\ Len(embedded.markerMap) = Len(embedded.owners)
        /\ Len(embedded.markerToSourcePath) = Len(embedded.owners)

\* the tokens the Reverse Page Index maps to
IndexedTokens == {service.pagePathToMarker[i].val : i \in 1..Len(service.pagePathToMarker)}

\* the token-shaped strings of the rendered page
RenderedTokens ==
    UNION {OwnTokens(render[1].result, n) : n \in Elements(render[1].result)}

\* C19: in every service returned by initializeMapper the tokens of the
\* Reverse Page Index are keys of the Page-Path Registry, the keys of the
\* Page-Path Registry are keys of the Source-Path Registry, and the keys of the
\* Source-Path Registry are those of the embedder's token table, also when the
\* rendered document holds token-shaped strings the embedder never issued.
C19_TokenSetsNested ==
    pc = "ready" =>
        /\ IndexedTokens \subseteq MapKeys(service.markerToPagePath)
        /\ MapKeys(service.markerToPagePath) \subseteq MapKeys(service.markerToSourcePath)
        /\ MapKeys(service.markerToSourcePath) = MapKeys(embedded.markerMap)

\* a service was returned for a rendered page that holds a token the embedder
\* never issued beside tokens it issued
C19_Witness ==
    /\ pc = "ready"
    /\ ForeignToken \in RenderedTokens
    /\ ForeignToken \notin MapKeys(embedded.markerMap)
    /\ service.markerToPagePath # <<>>
    /\ service.rootSelector = "main"

----------------------------------------------------------------------------
(* Claims on repeated queries *)

----------------------------------------------------------------------------
(* Claims on getAllMappedElements *)

\* the entries of the Source-Path Registry that have a page path and resolve
\* on both sides, pageDoc being the page document
Resolving(pageDoc) ==
    LET sourceRoot == docQuerySelector(service.sourceDoc, service.rootSelector)
        pageRoot == docQuerySelector(pageDoc, service.rootSelector)
    IN  IF sourceRoot = Null \/ pageRoot = Null THEN <<>>
        ELSE SelectSeq(service.markerToSourcePath,
                LAMBDA e :
                    /\ MapHas(service.markerToPagePath, e.key)
                    /\ getElementByPath(service.sourceDoc, sourceRoot, e.val) # Null
                    /\ getElementByPath(pageDoc, pageRoot,
                                        MapGet(service.markerToPagePath, e.key)) # Null)

\* the pairs the claim expects for pageDoc
ExpectedPairs(pageDoc) ==
    LET sourceRoot == docQuerySelector(service.sourceDoc, service.rootSelector)
        pageRoot == docQuerySelector(pageDoc, service.rootSelector)
        es == Resolving(pageDoc)
    IN  [i \in 1..Len(es) |->
            LET pagePath == MapGet(service.markerToPagePath, es[i].key) IN
            Pair(getElementByPath(service.sourceDoc, sourceRoot, es[i].val), es[i].val,
                 getElementByPath(pageDoc, pageRoot, pagePath), pagePath)]

\* C21: getAllMappedElements(pageDoc) returns one pair for each token of the
\* Source-Path Registry that has a page path and whose two paths resolve, in
\* registry order, and no other pair; it returns an empty list when the source
\* root or the page root is missing. (Checked on the call made and on the
\* source markup given as page document, where page paths may not resolve.)
C21_PairsExactly ==
    /\ lastAll.page # "none" =>
          lastAll.result = Returned(ExpectedPairs(PageDoc(lastAll.page)))
    /\ pc = "ready" =>
          getAllMappedElements(service, sourceHTML) = Returned(ExpectedPairs(sourceHTML))

\* the call returned a pair for one token and none for another, whose source
\* element had been removed
C21_Witness ==
    /\ lastAll.page = "live"
    /\ lastAll.result.pairs # <<>>
    /\ Len(lastAll.result.pairs) < Len(service.markerToPagePath)

----------------------------------------------------------------------------
(* Claims on the service as a whole *)

\* a step in which the caller made a query: lastFind or lastAll changes and
\* no edit is made
QueryStep ==
    /\ pc = "ready"
    /\ editsLeft' = editsLeft
    /\ lastFind' # lastFind \/ lastAll' # lastAll

\* C22: the service's structures are read-only after construction: no
\* findSourceElement, getSourceDoc or getAllMappedElements call changes the
\* Source-Path Registry, the Page-Path Registry, the Reverse Page Index, the
\* Source Document or the queried page document.
C22_ReadOnly ==
    [][QueryStep => (service' = service /\ render' = render /\ sourceHTML' = sourceHTML)]_vars

\* after an edit of the source a lookup that finds an element was made twice
\* on the same service
C22_Witness ==
    /\ service.sourceDoc # sourceHTML
    /\ lastFind.again.asked
    /\ lastFind.page = "live"
    /\ lastFind.result # Null

----------------------------------------------------------------------------
(* Claims on the path primitives *)

\* the documents at hand: the source as given, before initialization; the
\* source as held by the service and the live page, before each query
DocsAtHand ==
    IF pc = "start" THEN {sourceHTML}
    ELSE IF pc = "ready" /\ lastFind = NoFind /\ lastAll = NoAll
         THEN {service.sourceDoc, livePage}
         ELSE {}

Marked(doc, n) == OwnTokens(doc, n) # {} \/ doc[n].mids # <<>>

\* C24: the Source Document held by a service returned from initializeMapper
\* never contains a token nor the embedder's data-marker-ids and
\* data-source-marked attributes: the embedder and the renderer act on
\* document graphs of their own, and the service starts from the source as
\* it was given.
C24_SourcePristine ==
    pc = "ready" =>
        /\ \A n \in Elements(service.sourceDoc) : ~Marked(service.sourceDoc, n)
        /\ (lastFind = NoFind /\ lastAll = NoAll /\ editsLeft = MaxEdits)
              => service.sourceDoc = sourceHTML

\* a service is ready whose marked markup and rendered page carry tokens and
\* marker attributes
C24_Witness ==
    /\ pc = "ready"
    /\ \E n \in Elements(embedded.markedHTML) :
          embedded.markedHTML[n].mids # <<>> /\ OwnTokens(embedded.markedHTML, n) # {}
    /\ \E n \in Elements(render[1].result) : Marked(render[1].result, n)
    /\ lastFind.result # Null

----------------------------------------------------------------------------
(* Claims on concurrent renders *)

\* call c runs in a sandbox: its iframe was attached and it has not settled
InSandbox(c) == render[c].pc \in {"loading", "awaiting"}

\* C25: interleaved renderPage calls each create a sandbox iframe of their own,
\* the decorators of a call receive the root and document of that call's
\* sandbox only, and the teardown of one call, on success or on failure,
\* never removes the sandbox of the other.
C25_OwnSandbox ==
    /\ \A c \in DOMAIN render :
          /\ render[c].iframe \in {0, c}
          /\ InSandbox(c) => c \in hostFrames
          /\ Settled(c) => c \notin hostFrames
          /\ \A i \in 1..Len(render[c].invoked) : render[c].invoked[i].frame = c
          /\ render[c].pc = "awaiting" =>
                /\ render[c].root = docQuerySelector(render[c].doc, render[c].options.rootSelector)
                /\ render[c].root # Null
    /\ hostFrames = {c \in DOMAIN render : InSandbox(c)}

\* one call was torn down after a failure, or after its success, while the
\* other one is still awaiting a decorator in its sandbox
C25_Witness ==
    /\ DOMAIN render = {1, 2}
    /\ render[1].pc = "rejected" /\ Logged(1, "remove")
    /\ render[2].pc = "awaiting"
    /\ render[2].invoked # <<>>
    /\ hostFrames = {2}

----------------------------------------------------------------------------
(* Claims on the sandbox document *)

\* C26: at the moment each decorator is invoked the sandbox document contains
\* the stylesheet links and style elements copied from the host page: the
\* copied styling survives the replacement of the document's content by the
\* marked markup.
C26_StyledWhenDecorated ==
    \A c \in DOMAIN render :
        render[c].invoked # <<>> =>
            /\ Logged(c, "copyStylesheets")
            /\ render[c].styled

----------------------------------------------------------------------------
(* Claims on the page mapper *)

\* the rendered page and its root, as buildPageMapping saw them
renderedPage == render[1].result
renderedRoot == docQuerySelector(renderedPage, config.rootSelector)

\* the elements at and below the rendered root that hold token t in a text
\* node of their own, in document order
OccurrencesOf(t) ==
    SelectSeq(Subtree(renderedPage, renderedRoot),
              LAMBDA n : t \in SeqToSet(renderedPage[n].txt))

DepthOf(n) == Len(getElementPath(renderedPage, n, renderedRoot))

\* the first occurrence of t, in document order, among the deepest ones
DeepestFirst(t) ==
    LET occ == OccurrencesOf(t)
        deepest == SelectSeq(occ, LAMBDA n : \A i \in 1..Len(occ) : DepthOf(occ[i]) <= DepthOf(n))
    IN  Head(deepest)

\* buildPageMapping recorded, for token t, the path of its first occurrence
\* among the deepest ones
RecordedDeepest(t) ==
    /\ MapHas(service.markerToPagePath, t)
    /\ MapGet(service.markerToPagePath, t)
          = getElementPath(renderedPage, DeepestFirst(t), renderedRoot)

\* the mapping was built over a source and a rendered page that have a root
Mapped ==
    /\ pc = "ready" /\ lastFind = NoFind /\ lastAll = NoAll
    /\ renderedRoot # Null
    /\ docQuerySelector(sourceHTML, config.rootSelector) # Null

\* C27: for a token that occurs in text nodes under several elements of the
\* rendered tree, buildPageMapping records the path of an occurrence of
\* maximal depth, whatever the document order of the occurrences; among
\* occurrences of equal depth the first in document order is kept.
C27_DeepestOccurrence ==
    Mapped =>
        \A i \in 1..Len(embedded.markerToSourcePath) :
            LET t == embedded.markerToSourcePath[i].key IN
            (t.kind = "HTML" /\ Len(OccurrencesOf(t)) >= 2) => RecordedDeepest(t)

\* C27 for the tokens that the token pattern matches, in one element or several
C27_MatchedTokens ==
    Mapped =>
        \A i \in 1..Len(embedded.markerToSourcePath) :
            LET t == embedded.markerToSourcePath[i].key IN
            (t.kind = "HTML" /\ OccurrencesOf(t) # <<>> /\ markerPattern(t))
                => RecordedDeepest(t)

----------------------------------------------------------------------------
(* Claims on the Reverse Page Index *)

\* the tokens whose recorded page path is path, in registry order
TokensAt(path) ==
    SelectSeq([i \in 1..Len(service.markerToSourcePath) |-> service.markerToSourcePath[i].key],
              LAMBDA t : MapHas(service.markerToPagePath, t)
                           /\ MapGet(service.markerToPagePath, t) = path)

\* the element of the source a token was created for
OwnerOf(t) == (CHOOSE o \in Owners : o.marker = t).element

\* the keys of the Reverse Page Index distinguish the page paths
KeysLossless ==
    \A i, j \in 1..Len(service.markerToPagePath) :
        serializePathKey(service.markerToPagePath[i].val)
            = serializePathKey(service.markerToPagePath[j].val)
          => service.markerToPagePath[i].val = service.markerToPagePath[j].val

\* the index holds, for every recorded page path, the token latest in registry order
IndexKeepsLatest ==
    \A i \in 1..Len(service.markerToPagePath) :
        LET path == service.markerToPagePath[i].val
            ts == TokensAt(path)
        IN  /\ MapHas(service.pagePathToMarker, serializePathKey(path))
            /\ MapGet(service.pagePathToMarker, serializePathKey(path)) = ts[Len(ts)]

\* C28: the key of the Reverse Page Index is a lossless encoding of the page
\* path; when several tokens have the same page path the index keeps the
\* token latest in registry order, and findSourceElement on that page element
\* returns the source element of that token (stated for the default root
\* selector, an unedited source and a pass in which every element drew its
\* own token).
C28_LatestTokenWins ==
    (Pristine /\ DistinctTokens /\ config.rootSelector = "main") =>
        /\ KeysLossless
        /\ IndexKeepsLatest
        /\ (lastFind.page = "live" /\ lastFind.el \in Attached(livePage) /\ liveRoot # Null) =>
              LET ts == TokensAt(getElementPath(livePage, lastFind.el, liveRoot)) IN
              Len(ts) >= 2 => lastFind.result = OwnerOf(ts[Len(ts)])

----------------------------------------------------------------------------
(* Claims on lists *)

\* the leaf lists of the source, the items of a list that have inner markup,
\* and the tokens created in the forEach step of a list
LeafLists == {n \in LeafTargets : sourceHTML[n].tag \in {"UL", "OL"}}
ItemsOf(l) ==
    {k \in SeqToSet(sourceHTML[l].kids) :
        /\ sourceHTML[k].tag = "LI"
        /\ sourceHTML[k].txt # <<>> \/ sourceHTML[k].kids # <<>>}
TokensOf(l) == {o.marker : o \in {x \in Owners : x.element = l}}

\* the last findSourceElement call was made on a rendered item that holds a
\* token of list l in its own text
AskedItemOf(l) ==
    /\ lastFind.page = "live"
    /\ lastFind.el \in 1..Len(livePage)
    /\ livePage[lastFind.el].tag = "LI"
    /\ OwnTokens(livePage, lastFind.el) # {}
    /\ OwnTokens(livePage, lastFind.el) \subseteq TokensOf(l)

\* the embedder side of C29: one HTML-kind LI token per item with inner markup,
\* written as the item's whole content, each registered with the path of the
\* list element
ListTokensRegistered(l) ==
    /\ Cardinality(TokensOf(l)) = Cardinality(ItemsOf(l))
    /\ \A k \in ItemsOf(l) :
          \E t \in TokensOf(l) :
              embedded.markedHTML[k].txt = <<t>> /\ embedded.markedHTML[k].kids = <<>>
    /\ \A t \in TokensOf(l) :
          /\ t.tag = "LI" /\ t.kind = "HTML"
          /\ MapHas(embedded.markerToSourcePath, t)
          /\ MapGet(embedded.markerToSourcePath, t)
                = embedderGetElementPath(sourceHTML, l, config.rootSelector)

\* C29: for a leaf list, every direct item with inner markup receives its own
\* HTML-kind token, all tokens of the list are registered with the source path
\* of the list element, and findSourceElement on a rendered item of the list
\* returns the source list element (stated for the default root selector and
\* runs in which every item drew its own token).
C29_ListItems ==
    (Pristine /\ DistinctTokens /\ config.rootSelector = "main") =>
        \A l \in LeafLists :
            /\ ListTokensRegistered(l)
            /\ AskedItemOf(l) => lastFind.result = l

\* the embedder side of C29 alone
C29_Registered ==
    (Pristine /\ DistinctTokens /\ config.rootSelector = "main") =>
        \A l \in LeafLists : ListTokensRegistered(l)

\* a source in which some root is nested below the root
NestedRoot ==
    LET root == docQuerySelector(sourceHTML, config.rootSelector) IN
    /\ root # Null
    /\ querySelectorAll(sourceHTML, root, {toUpperCase(config.rootSelector)}) # <<>>

\* C29 on sources without a nested root
C29_FlatRoot == ~NestedRoot => C29_ListItems

----------------------------------------------------------------------------
(* Claims on the token pattern *)

\* the tokens of the embedder that stand verbatim in a text node or an image
\* src below the root of the rendered page
SurvivingTokens ==
    IF liveRoot = Null THEN {}
    ELSE {o.marker : o \in {x \in Owners :
            \E n \in SeqToSet(Subtree(livePage, liveRoot)) :
                x.marker \in SeqToSet(livePage[n].txt) \cup {livePage[n].src}}}

\* C30: every token of the embedder, whatever the tag name of its element, the
\* configured prefix and the id length, that survives rendering verbatim in a
\* text node or an image src is discovered and has a page path.
C30_TokensDiscovered ==
    Pristine => \A t \in SurvivingTokens : MapHas(service.markerToPagePath, t)

\* C30 for tag names of capitals and digits and a prefix that starts with a
\* word character
C30_PlainAlphabet ==
    (/\ Pristine
     /\ config.hashPrefix[1] \in WordChar
     /\ \A t \in SurvivingTokens :
            \A i \in 1..Len(TagChars(t.tag)) : TagChars(t.tag)[i] \in Upper \cup Digit)
        => \A t \in SurvivingTokens : MapHas(service.markerToPagePath, t)

\* C30 with the default prefix only
C30_DefaultPrefix ==
    (Pristine /\ config.hashPrefix = DefaultPrefix)
        => \A t \in SurvivingTokens : MapHas(service.markerToPagePath, t)

====
